---- MODULE Spec2Model ----
(***************************************************************************)
(* A model of the browser data-management application: the local-storage   *)
(* collections (users, password hashes, data records, the session token),  *)
(* the managers that read and write them (UserManager, PasswordManager,    *)
(* DataManager), the token functions, the AuthProvider of one tab, and the *)
(* pure DataUtils functions.                                               *)
(*                                                                         *)
(* Strings that the program only compares are TLA+ strings.  Texts the     *)
(* program searches in (title, description, category) are sequences of    *)
(* one-character strings.  An encoded text (btoa, JSON.stringify) is a     *)
(* record that says how it was built, so decoding is a real operation that *)
(* can fail.  A call that throws returns Throw.                            *)
(***************************************************************************)
EXTENDS Integers, Sequences, FiniteSets, TLC

VARIABLES
    now,        \* the wall clock, in milliseconds (Date.now())
    users,      \* localStorage 'saas_users': a sequence of User
    passwords,  \* localStorage 'saas_passwords': user id -> hash
    records,    \* localStorage 'saas_data_records': a sequence of DataRecord
    token,      \* localStorage 'auth_token', or Null
    user,       \* AuthProvider's state 'user': an AuthUser or Null
    loading,    \* AuthProvider's state 'loading'
    added,      \* history: how many users addUser has ever created
    last,       \* history: the last call, its arguments and what it returned
    pending,    \* the call this tab is in the middle of, or Null
    otherTab    \* a second tab on the same store: its user, loading, pending

vars ==
    <<now, users, passwords, records, token, user, loading, added, last,
      pending, otherTab>>

(***************************************************************************)
(* Bounds of the model: the millisecond ticks of the clock within one day, *)
(* the whole token lifetimes the clock may jump, the users ever created,  *)
(* the data records in the collection, and the length of a list handed to *)
(* filterRecords.                                                          *)
(***************************************************************************)
MaxMs == 1
MaxDays == 1
MaxAdds == 2
MaxRecords == 2
MaxFilterLen == 2
MaxUtilLen == 3
MaxTabAdds == 3

(***************************************************************************)
(* Values.                                                                 *)
(***************************************************************************)
Null == [null |-> TRUE]
Throw == [ok |-> FALSE]
Ok(v) == [ok |-> TRUE, v |-> v]
Undefined == "<undefined>"

Min(S) == CHOOSE m \in S : \A n \in S : m <= n

\* The inputs the operations are tried with.
DefaultAdminEmail == "admin@example.com"
DefaultAdminPassword == "admin123"
DefaultAdminName == "Admin User"
Emails == {DefaultAdminEmail, "a@x.io", "A@x.io", "nope"}
\* "pass-EURO-word" stands for a password holding a character above U+00FF.
Passwords == {DefaultAdminPassword, "secret9", "short", "pass-EURO-word"}

\* z.string().email(): of the inputs, the ones that are e-mail addresses.
IsEmail(s) == s \in {DefaultAdminEmail, "a@x.io", "A@x.io"}
\* Whether every character of s fits in one byte (what btoa accepts).
IsLatin1(s) == s # "pass-EURO-word"

loginSchema(email, password) == IsEmail(email) /\ Len(password) >= 6

signupSchema(data) ==
    /\ Len(data.name) >= 2
    /\ IsEmail(data.email)
    /\ Len(data.password) >= 6
    /\ data.password = data.confirmPassword

(***************************************************************************)
(* Encodings: btoa/atob and JSON.stringify/JSON.parse.                     *)
(***************************************************************************)
Btoa(s) == [b64 |-> TRUE, of |-> s]
Atob(t) == IF t.b64 THEN Ok(t.of) ELSE Throw
JsonStringify(fields) == [json |-> TRUE, val |-> [kind |-> "object", f |-> fields]]
JsonParse(s) == IF s.json THEN Ok(s.val) ELSE Throw

TokenTTL == 86400000

generateToken(u, t) ==
    Btoa(JsonStringify([id |-> u.id, email |-> u.email, role |-> u.role,
                        exp |-> t + TokenTTL]))

\* payload.<name>, undefined when the object has no such property.
Prop(payload, name) ==
    IF name \in DOMAIN payload.f THEN payload.f[name] ELSE Undefined

validateToken(tok, t) ==
    LET decoded == Atob(tok) IN
    IF ~decoded.ok THEN Null
    ELSE LET parsed == JsonParse(decoded.v) IN
    IF ~parsed.ok THEN Null
    ELSE LET payload == parsed.v IN
    IF payload.kind = "null" THEN Null
    ELSE IF "exp" \in DOMAIN payload.f /\ payload.f.exp < t THEN Null
    ELSE [id |-> Prop(payload, "id"),
          email |-> Prop(payload, "email"),
          name |-> IF "name" \in DOMAIN payload.f THEN payload.f.name ELSE "",
          role |-> Prop(payload, "role"),
          token |-> tok]

Salt == "salt_key_2024"

hashPassword(password) ==
    IF IsLatin1(password) THEN Ok(Btoa(password \o Salt)) ELSE Throw

\* Throws when hashPassword throws.
verifyPassword(password, hash) ==
    LET h == hashPassword(password) IN
    IF h.ok THEN Ok(h.v = hash) ELSE Throw

getUser(tok, t) == IF tok # Null THEN validateToken(tok, t) ELSE Null

(***************************************************************************)
(* Dates.  A Date object is [date |-> ms]; JSON.stringify writes it as an  *)
(* ISO string, [iso |-> ms], and leaves a string as it is; new Date(string) *)
(* parses it back.                                                         *)
(***************************************************************************)
NewDate(t) == [date |-> t]
JsonDate(d) == IF "date" \in DOMAIN d THEN [iso |-> d.date] ELSE d
ParseDate(s) == IF "iso" \in DOMAIN s THEN [date |-> s.iso] ELSE s

(***************************************************************************)
(* UserManager and PasswordManager, as functions of the collections.       *)
(***************************************************************************)
\* getUsers: JSON.parse of the stored text; dates stay strings.
getUsers(stored) == stored

saveUsers(list) ==
    [i \in 1..Len(list) |->
        [list[i] EXCEPT !.createdAt = JsonDate(@), !.updatedAt = JsonDate(@)]]

\* The User addUser builds when the collection read is us.
addUser(us, userData, t) ==
    [id |-> ToString(t),
     name |-> userData.name,
     email |-> userData.email,
     role |-> IF Len(us) = 0 THEN "admin" ELSE "user",
     createdAt |-> NewDate(t),
     updatedAt |-> NewDate(t)]

findByEmail(us, email) ==
    LET hits == {i \in 1..Len(us) : us[i].email = email} IN
    IF hits = {} THEN Null ELSE us[Min(hits)]

deleteUserList(us, id) == SelectSeq(us, LAMBDA u : u.id # id)

savePassword(pws, userId, password) ==
    LET h == hashPassword(password) IN
    IF h.ok
    THEN Ok([k \in DOMAIN pws \cup {userId} |-> IF k = userId THEN h.v ELSE pws[k]])
    ELSE Throw

verifyUserPasswordAny(pws, userId, password) ==
    IF userId \in DOMAIN pws THEN Ok(TRUE) ELSE Ok(FALSE)

verifyUserPassword(pws, userId, password) ==
    IF userId \in DOMAIN pws THEN verifyPassword(password, pws[userId]) ELSE Ok(FALSE)

AdminData ==
    [name |-> DefaultAdminName, email |-> DefaultAdminEmail,
     password |-> DefaultAdminPassword, confirmPassword |-> DefaultAdminPassword]

initializeAppNoPassword(us, pws, t) ==
    IF Len(us) = 0
    THEN [users |-> saveUsers(Append(us, addUser(us, AdminData, t))),
          passwords |-> pws, created |-> 1]
    ELSE [users |-> us, passwords |-> pws, created |-> 0]

\* initializeApp: the users and passwords collections it leaves, and how many
\* users it created.
initializeApp(us, pws, t) ==
    IF Len(us) = 0
    THEN LET admin == addUser(us, AdminData, t) IN
         [users |-> saveUsers(Append(us, admin)),
          passwords |-> savePassword(pws, admin.id, AdminData.password).v,
          created |-> 1]
    ELSE [users |-> us, passwords |-> pws, created |-> 0]

(***************************************************************************)
(* AuthProvider: what one call decides.                                    *)
(***************************************************************************)
AuthUserOf(u, tok) ==
    [id |-> u.id, email |-> u.email, name |-> u.name, role |-> u.role, token |-> tok]

\* login's outcome on the collections us, pws: err is "" when it returns true.
loginOutcome(us, pws, email, password) ==
    IF ~loginSchema(email, password) THEN [err |-> "validation", found |-> Null]
    ELSE LET foundUser == findByEmail(us, email) IN
    IF foundUser = Null THEN [err |-> "invalid", found |-> Null]
    ELSE LET v == verifyUserPassword(pws, foundUser.id, password) IN
    IF ~v.ok THEN [err |-> "btoa", found |-> Null]
    ELSE IF ~v.v THEN [err |-> "invalid", found |-> Null]
    ELSE [err |-> "", found |-> foundUser]

emailTakenNever(us, email) == FALSE

\* signup's check that the e-mail is registered already.
emailTaken(us, email) == findByEmail(us, email) # Null

\* A call: its name, what it returned, the error it caught ("" for none) and
\* its arguments.
Call(op, ret, err, arg) == [op |-> op, ret |-> ret, err |-> err, arg |-> arg]
NoArg == <<>>

\* The state of a tab whose AuthProvider has just been constructed.
NewTab == [user |-> Null, loading |-> TRUE, pending |-> Null]

(***************************************************************************)
(* DataManager, as functions of the records collection.                    *)
(***************************************************************************)
getRecords(stored) ==
    [i \in 1..Len(stored) |->
        [stored[i] EXCEPT !.createdAt = ParseDate(@), !.updatedAt = ParseDate(@)]]

saveRecords(list) ==
    [i \in 1..Len(list) |->
        [list[i] EXCEPT !.createdAt = JsonDate(@), !.updatedAt = JsonDate(@)]]

\* The DataRecord addRecord builds; the clock is read for the id, then for
\* createdAt, then for updatedAt.
newRecord(userId, data, tId, tCreated, tUpdated) ==
    [id |-> ToString(tId),
     userId |-> userId,
     title |-> data.title,
     description |-> data.description,
     category |-> data.category,
     value |-> data.value,
     status |-> data.status,
     createdAt |-> NewDate(tCreated),
     updatedAt |-> NewDate(tUpdated)]

\* records.findIndex(record => record.id === id): 0 stands for -1.
findIndex(list, id) ==
    LET hits == {i \in 1..Len(list) : list[i].id = id} IN
    IF hits = {} THEN 0 ELSE Min(hits)

mergedKeepStamp(r, updates, t) ==
    [k \in DOMAIN r |-> IF k \in DOMAIN updates THEN updates[k] ELSE r[k]]

mergedStampOnly(r, updates, t) == [r EXCEPT !.updatedAt = NewDate(t)]

\* { ...records[index], ...updates, updatedAt: new Date() }
merged(r, updates, t) ==
    [k \in DOMAIN r |->
        IF k = "updatedAt" THEN NewDate(t)
        ELSE IF k \in DOMAIN updates THEN updates[k]
        ELSE r[k]]

deleteRecordList(list, id) == SelectSeq(list, LAMBDA r : r.id # id)

getRecordsByUserId(stored, userId) ==
    SelectSeq(getRecords(stored), LAMBDA r : r.userId = userId)

(***************************************************************************)
(* DataUtils.filterRecords.  A FilterConfig is a record with some of the   *)
(* fields category, status, dateRange and search; the empty text is <<>>.  *)
(***************************************************************************)
\* String.prototype.toLowerCase, on the letters the inputs use.
LowerChar(c) ==
    CASE c = "A" -> "a" [] c = "B" -> "b" [] c = "F" -> "f" [] c = "H" -> "h"
      [] OTHER -> c
toLowerCase(s) == [i \in 1..Len(s) |-> LowerChar(s[i])]

\* String.prototype.includes
includes(text, term) ==
    \E i \in 0..(Len(text) - Len(term)) : SubSeq(text, i + 1, i + Len(term)) = term

\* `${record.title} ${record.description} ${record.category}`
searchableText(r) == r.title \o <<" ">> \o r.description \o <<" ">> \o r.category

\* JavaScript's truthiness of an optional text: present and not empty.
Truthy(filter, key) == key \in DOMAIN filter /\ filter[key] # <<>>

keepsCaseSensitive(r, filter) ==
    IF Truthy(filter, "category") /\ r.category # filter.category THEN FALSE
    ELSE IF "status" \in DOMAIN filter /\ r.status # filter.status THEN FALSE
    ELSE IF /\ "dateRange" \in DOMAIN filter
            /\ \/ r.createdAt.date < filter.dateRange.start.date
               \/ r.createdAt.date > filter.dateRange.end.date
         THEN FALSE
    ELSE IF /\ Truthy(filter, "search")
            /\ ~includes(searchableText(r), filter.search)
         THEN FALSE
    ELSE TRUE

\* The callback of records.filter: whether the record is kept.
keeps(r, filter) ==
    IF Truthy(filter, "category") /\ r.category # filter.category THEN FALSE
    ELSE IF "status" \in DOMAIN filter /\ r.status # filter.status THEN FALSE
    ELSE IF /\ "dateRange" \in DOMAIN filter
            /\ \/ r.createdAt.date < filter.dateRange.start.date
               \/ r.createdAt.date > filter.dateRange.end.date
         THEN FALSE
    ELSE IF /\ Truthy(filter, "search")
            /\ ~includes(toLowerCase(searchableText(r)), toLowerCase(filter.search))
         THEN FALSE
    ELSE TRUE

filterRecords(list, filter) == SelectSeq(list, LAMBDA r : keeps(r, filter))

(***************************************************************************)
(* DataUtils.sortRecords and DataUtils.getRecordStats.  A SortConfig is    *)
(* [key, direction].                                                       *)
(***************************************************************************)
\* The UTF-16 code unit of a character of the inputs.
CharCode(c) ==
    CASE c = " " -> 32 [] c = "A" -> 65 [] c = "B" -> 66 [] c = "F" -> 70
      [] c = "H" -> 72 [] c = "a" -> 97 [] c = "b" -> 98 [] c = "c" -> 99
      [] c = "e" -> 101 [] c = "f" -> 102 [] c = "i" -> 105 [] c = "n" -> 110
      [] c = "t" -> 116 [] OTHER -> 118

\* a < b on two strings: the first character that differs decides, and a
\* proper prefix is smaller.
StringLess(a, b) ==
    \E i \in 1..(Len(b)) :
        /\ \A k \in 1..(i - 1) : k <= Len(a) /\ a[k] = b[k]
        /\ i - 1 <= Len(a)
        /\ i > Len(a) \/ CharCode(a[i]) < CharCode(b[i])

\* The status as the string of characters it is.
StatusText(st) ==
    IF st = "active" THEN <<"a", "c", "t", "i", "v", "e">>
    ELSE <<"i", "n", "a", "c", "t", "i", "v", "e">>

\* aVal < bVal for the values of the field `key` of two records: numbers by
\* value, dates by their time, strings by code units.
LessThan(key, aVal, bVal) ==
    CASE key = "value" -> aVal < bVal
      [] key \in {"createdAt", "updatedAt"} -> aVal.date < bVal.date
      [] key = "status" -> StringLess(StatusText(aVal), StatusText(bVal))
      [] OTHER -> StringLess(aVal, bVal)

\* The comparator sortRecords hands to Array.prototype.sort.
compare(a, b, config) ==
    LET aVal == a[config.key]
        bVal == b[config.key]
        comparison == IF LessThan(config.key, bVal, aVal) THEN 1
                      ELSE IF LessThan(config.key, aVal, bVal) THEN 0 - 1
                      ELSE 0
    IN  IF config.direction = "desc" THEN 0 - comparison ELSE comparison

\* Array.prototype.sort with a comparator is a stable sort: an element goes
\* in front of the first one that the comparator puts after it.
insertSorted(sorted, x, config) ==
    LET after == {i \in 1..Len(sorted) : compare(sorted[i], x, config) > 0}
        at == IF after = {} THEN Len(sorted) + 1 ELSE Min(after)
    IN  SubSeq(sorted, 1, at - 1) \o <<x>> \o SubSeq(sorted, at, Len(sorted))

RECURSIVE sortSeq(_, _)
sortSeq(list, config) ==
    IF list = <<>> THEN <<>>
    ELSE insertSorted(sortSeq(SubSeq(list, 1, Len(list) - 1), config),
                      list[Len(list)], config)

Reverse(list) == [i \in 1..Len(list) |-> list[Len(list) + 1 - i]]

sortRecordsByReversal(list, config) ==
    IF config.direction = "desc"
    THEN Reverse(sortSeq(list, [config EXCEPT !.direction = "asc"]))
    ELSE sortSeq(list, config)

\* [...records].sort(comparator)
sortRecords(list, config) == sortSeq(list, config)

\* records.reduce((sum, r) => sum + r.value, 0)
RECURSIVE reduceSum(_)
reduceSum(list) ==
    IF list = <<>> THEN 0
    ELSE reduceSum(SubSeq(list, 1, Len(list) - 1)) + list[Len(list)].value

\* A number that need not be whole, num / den in lowest terms.
RECURSIVE GCD(_, _)
GCD(a, b) == IF b = 0 THEN a ELSE GCD(b, a % b)
Quotient(a, b) ==
    LET g == GCD(a, b) IN [num |-> a \div g, den |-> b \div g]
Number(n) == [num |-> n, den |-> 1]

getRecordStatsWholeAverage(list) ==
    LET total == Len(list)
        totalValue == reduceSum(list)
    IN  [total |-> total,
         active |-> Len(SelectSeq(list, LAMBDA r : r.status = "active")),
         inactive |-> Len(SelectSeq(list, LAMBDA r : r.status = "inactive")),
         totalValue |-> totalValue,
         avgValue |-> IF total > 0 THEN Number(totalValue \div total) ELSE Number(0)]

getRecordStats(list) ==
    LET total == Len(list)
        totalValue == reduceSum(list)
    IN  [total |-> total,
         active |-> Len(SelectSeq(list, LAMBDA r : r.status = "active")),
         inactive |-> Len(SelectSeq(list, LAMBDA r : r.status = "inactive")),
         totalValue |-> totalValue,
         avgValue |-> IF total > 0 THEN Quotient(totalValue, total) ELSE Number(0)]

(***************************************************************************)
(* The steps of one tab.                                                   *)
(***************************************************************************)
Init ==
    /\ now = 0
    /\ users = <<>>
    /\ passwords = <<>>
    /\ records = <<>>
    /\ token = Null
    /\ user = Null
    /\ loading = TRUE
    /\ added = 0
    /\ last = Call("new", TRUE, "", NoArg)
    /\ pending = Null
    /\ otherTab = NewTab

\* The page is loaded: AuthProvider is constructed and its effect runs.
AppLoad ==
    /\ Len(users) = 0 => added < MaxAdds
    /\ LET s == initializeApp(getUsers(users), passwords, now) IN
       /\ users' = s.users
       /\ passwords' = s.passwords
       /\ added' = added + s.created
       /\ last' = Call("load", TRUE, "", [created |-> s.created])
    /\ user' = getUser(token, now)
    /\ loading' = FALSE
    /\ UNCHANGED <<now, records, token, pending, otherTab>>

LoginFailureEndsSession(email, password) ==
    /\ ~loading
    /\ LET out == loginOutcome(getUsers(users), passwords, email, password) IN
       /\ IF out.err = ""
          THEN LET tok == generateToken(out.found, now) IN
               /\ token' = tok
               /\ user' = AuthUserOf(out.found, tok)
          ELSE token' = Null /\ user' = Null
       /\ last' = Call("login", out.err = "", out.err,
                       [email |-> email, password |-> password])
    /\ UNCHANGED <<now, users, passwords, records, loading, added, pending, otherTab>>

Login(email, password) ==
    /\ ~loading
    /\ LET out == loginOutcome(getUsers(users), passwords, email, password) IN
       /\ IF out.err = ""
          THEN LET tok == generateToken(out.found, now) IN
               /\ token' = tok
               /\ user' = AuthUserOf(out.found, tok)
          ELSE UNCHANGED <<token, user>>
       /\ last' = Call("login", out.err = "", out.err,
                       [email |-> email, password |-> password])
    /\ UNCHANGED <<now, users, passwords, records, loading, added, pending, otherTab>>

Signup(data) ==
    /\ ~loading
    /\ (signupSchema(data) /\ ~emailTaken(getUsers(users), data.email)) => added < MaxAdds
    /\ IF ~signupSchema(data)
       THEN /\ last' = Call("signup", FALSE, "validation", data)
            /\ UNCHANGED <<users, passwords, token, user, added>>
       ELSE IF emailTaken(getUsers(users), data.email)
       THEN /\ last' = Call("signup", FALSE, "exists", data)
            /\ UNCHANGED <<users, passwords, token, user, added>>
       ELSE LET newUser == addUser(getUsers(users), data, now)
                saved == savePassword(passwords, newUser.id, data.password)
                tok == generateToken(newUser, now)
            IN  /\ users' = saveUsers(Append(getUsers(users), newUser))
                /\ added' = added + 1
                /\ IF saved.ok
                   THEN /\ passwords' = saved.v
                        /\ token' = tok
                        /\ user' = AuthUserOf(newUser, tok)
                        /\ last' = Call("signup", TRUE, "", data)
                   ELSE /\ UNCHANGED <<passwords, token, user>>
                        /\ last' = Call("signup", FALSE, "btoa", data)
    /\ UNCHANGED <<now, records, loading, pending, otherTab>>

LogoutKeepsToken ==
    /\ ~loading
    /\ user' = Null
    /\ last' = Call("logout", TRUE, "", [authenticated |-> user # Null])
    /\ UNCHANGED <<now, users, passwords, records, token, loading, added, pending, otherTab>>

Logout ==
    /\ ~loading
    /\ token' = Null
    /\ user' = Null
    /\ last' = Call("logout", TRUE, "", [authenticated |-> user # Null])
    /\ UNCHANGED <<now, users, passwords, records, loading, added, pending, otherTab>>

DeleteUserAndPassword(id) ==
    /\ LET filteredUsers == deleteUserList(getUsers(users), id) IN
       IF Len(filteredUsers) = Len(users)
       THEN /\ last' = Call("deleteUser", FALSE, "", [id |-> id])
            /\ UNCHANGED <<users, passwords>>
       ELSE /\ users' = saveUsers(filteredUsers)
            /\ passwords' = [k \in DOMAIN passwords \ {id} |-> passwords[k]]
            /\ last' = Call("deleteUser", TRUE, "", [id |-> id])
    /\ UNCHANGED <<now, records, token, user, loading, added, pending, otherTab>>

DeleteUser(id) ==
    /\ LET filteredUsers == deleteUserList(getUsers(users), id) IN
       IF Len(filteredUsers) = Len(users)
       THEN /\ last' = Call("deleteUser", FALSE, "", [id |-> id])
            /\ UNCHANGED users
       ELSE /\ users' = saveUsers(filteredUsers)
            /\ last' = Call("deleteUser", TRUE, "", [id |-> id])
    /\ UNCHANGED <<now, passwords, records, token, user, loading, added, pending, otherTab>>

UpdateUser(id, updates) ==
    /\ LET list == getUsers(users)
           index == findIndex(list, id)
       IN  IF index = 0
           THEN /\ last' = Call("updateUser", FALSE, "",
                                [id |-> id, index |-> 0, updates |-> updates])
                /\ UNCHANGED users
           ELSE /\ users' = saveUsers([list EXCEPT ![index] = merged(@, updates, now)])
                /\ last' = Call("updateUser", TRUE, "",
                                [id |-> id, index |-> index, updates |-> updates])
    /\ UNCHANGED <<now, passwords, records, token, user, loading, added, pending, otherTab>>

\* The clock reads d milliseconds later between two reads of one call.
ClockMoves(d) == (now % TokenTTL) + d <= MaxMs

AddRecord(userId, data) ==
    /\ Len(records) < MaxRecords
    /\ \E d \in {0, 1} :
          /\ ClockMoves(d)
          /\ now' = now + d
          /\ LET rec == newRecord(userId, data, now, now, now + d) IN
             /\ records' = saveRecords(Append(getRecords(records), rec))
             /\ last' = Call("addRecord", TRUE, "", [userId |-> userId, id |-> rec.id])
    /\ UNCHANGED <<users, passwords, token, user, loading, added, pending, otherTab>>

UpdateRecord(id, updates) ==
    /\ LET list == getRecords(records)
           index == findIndex(list, id)
       IN  IF index = 0
           THEN /\ last' = Call("updateRecord", FALSE, "",
                                [id |-> id, index |-> 0, updates |-> updates])
                /\ UNCHANGED records
           ELSE /\ records' = saveRecords([list EXCEPT ![index] = merged(@, updates, now)])
                /\ last' = Call("updateRecord", TRUE, "",
                                [id |-> id, index |-> index, updates |-> updates])
    /\ UNCHANGED <<now, users, passwords, token, user, loading, added, pending, otherTab>>

DeleteRecord(id) ==
    /\ LET list == getRecords(records)
           filteredRecords == deleteRecordList(list, id)
       IN  IF Len(filteredRecords) = Len(list)
           THEN /\ last' = Call("deleteRecord", FALSE, "", [id |-> id])
                /\ UNCHANGED records
           ELSE /\ records' = saveRecords(filteredRecords)
                /\ last' = Call("deleteRecord", TRUE, "", [id |-> id])
    /\ UNCHANGED <<now, users, passwords, token, user, loading, added, pending, otherTab>>

\* The clock: a millisecond passes.
Tick ==
    /\ now % TokenTTL < MaxMs
    /\ now' = now + 1
    /\ last' = Call("tick", TRUE, "", NoArg)
    /\ UNCHANGED <<users, passwords, records, token, user, loading, added, pending, otherTab>>

\* The clock: a whole token lifetime passes.
TickDay ==
    /\ now \div TokenTTL < MaxDays
    /\ now' = now + TokenTTL
    /\ last' = Call("tick", TRUE, "", NoArg)
    /\ UNCHANGED <<users, passwords, records, token, user, loading, added, pending, otherTab>>

(***************************************************************************)
(* The admin dashboard's handlers.  They are offered to an administrator;  *)
(* the button that deletes a user is offered for every listed user but the *)
(* administrator's own.                                                    *)
(***************************************************************************)
deleteNoRecord(stored, list) == stored

\* userRecords.forEach(record => DataManager.deleteRecord(record.id)): the
\* records collection after the deleteRecord calls for the records of list.
RECURSIVE deleteEachRecord(_, _)
deleteEachRecord(stored, list) ==
    IF list = <<>> THEN stored
    ELSE LET all == getRecords(stored)
             filteredRecords == deleteRecordList(all, list[1].id)
             saved == IF Len(filteredRecords) = Len(all) THEN stored
                      ELSE saveRecords(filteredRecords)
         IN  deleteEachRecord(saved, SubSeq(list, 2, Len(list)))

HandleDeleteUser(userId, confirmed) ==
    /\ ~loading
    /\ user # Null
    /\ user.role = "admin"
    /\ userId # user.id
    /\ IF confirmed
       THEN LET userRecords == getRecordsByUserId(records, userId)
                filteredUsers == deleteUserList(getUsers(users), userId)
            IN  /\ records' = deleteEachRecord(records, userRecords)
                /\ users' = IF Len(filteredUsers) = Len(users) THEN users
                            ELSE saveUsers(filteredUsers)
       ELSE UNCHANGED <<records, users>>
    /\ last' = Call("handleDeleteUser", confirmed, "",
                    [id |-> userId, owned |-> Len(getRecordsByUserId(records, userId))])
    /\ UNCHANGED <<now, passwords, token, user, loading, added, pending, otherTab>>

HandleDeleteRecord(recordId, confirmed) ==
    /\ ~loading
    /\ user # Null
    /\ user.role = "admin"
    /\ IF confirmed
       THEN records' = deleteEachRecord(records, <<[id |-> recordId]>>)
       ELSE UNCHANGED records
    /\ last' = Call("handleDeleteRecord", confirmed, "", [id |-> recordId])
    /\ UNCHANGED <<now, users, passwords, token, user, loading, added, pending, otherTab>>

(***************************************************************************)
(* Two tabs on one store.  The steps above are those of the tab in front;  *)
(* SwitchTab brings the other tab to the front.  Between the read of the   *)
(* users collection in addUser and the write that follows it the other tab *)
(* may run: the load of the page is the two steps LoadBegin and LoadEnd,   *)
(* signup the two steps SignupBegin and SignupEnd.                         *)
(***************************************************************************)
SwitchTab ==
    /\ user' = otherTab.user
    /\ loading' = otherTab.loading
    /\ pending' = otherTab.pending
    /\ otherTab' = [user |-> user, loading |-> loading, pending |-> pending]
    /\ UNCHANGED <<now, users, passwords, records, token, added, last>>

\* users.push(newUser); this.saveUsers(users): what addUser writes, having
\* read the collection `read` while the store now holds `stored`.
pushedUsersOnStored(read, stored, newUser) == saveUsers(Append(stored, newUser))

pushedUsers(read, stored, newUser) == saveUsers(Append(read, newUser))

\* The effect of AuthProvider up to the reads of the users collection in
\* initializeApp and addUser.
LoadBegin ==
    /\ pending = Null
    /\ pending' = [op |-> "load", read |-> getUsers(users)]
    /\ UNCHANGED <<now, users, passwords, records, token, user, loading, added, last, otherTab>>

\* The effect from there on: the default admin is written when the
\* collection read was empty, and the session is restored from the token.
LoadEnd ==
    /\ pending # Null
    /\ pending.op = "load"
    /\ Len(pending.read) = 0 => added < MaxTabAdds
    /\ IF Len(pending.read) = 0
       THEN LET admin == addUser(pending.read, AdminData, now) IN
            /\ users' = pushedUsers(pending.read, getUsers(users), admin)
            /\ passwords' = savePassword(passwords, admin.id, AdminData.password).v
            /\ added' = added + 1
       ELSE UNCHANGED <<users, passwords, added>>
    /\ last' = Call("load", TRUE, "",
                    [created |-> IF Len(pending.read) = 0 THEN 1 ELSE 0,
                     read |-> pending.read, before |-> users])
    /\ user' = getUser(token, now)
    /\ loading' = FALSE
    /\ pending' = Null
    /\ UNCHANGED <<now, records, token, otherTab>>

\* signup up to the read of the users collection in addUser.
SignupBegin(data) ==
    /\ ~loading
    /\ pending = Null
    /\ IF ~signupSchema(data)
       THEN /\ last' = Call("signup", FALSE, "validation", data)
            /\ UNCHANGED pending
       ELSE IF emailTaken(getUsers(users), data.email)
       THEN /\ last' = Call("signup", FALSE, "exists", data)
            /\ UNCHANGED pending
       ELSE /\ pending' = [op |-> "signup", data |-> data, read |-> getUsers(users)]
            /\ UNCHANGED last
    /\ UNCHANGED <<now, users, passwords, records, token, user, loading, added, otherTab>>

\* signup from there on: the user is built and written, the password saved,
\* the token issued.
SignupEnd ==
    /\ pending # Null
    /\ pending.op = "signup"
    /\ added < MaxTabAdds
    /\ LET data == pending.data
           newUser == addUser(pending.read, data, now)
           saved == savePassword(passwords, newUser.id, data.password)
           tok == generateToken(newUser, now)
           arg == [data |-> data, read |-> pending.read, before |-> users]
       IN  /\ users' = pushedUsers(pending.read, getUsers(users), newUser)
           /\ added' = added + 1
           /\ IF saved.ok
              THEN /\ passwords' = saved.v
                   /\ token' = tok
                   /\ user' = AuthUserOf(newUser, tok)
                   /\ last' = Call("signup", TRUE, "", arg)
              ELSE /\ UNCHANGED <<passwords, token, user>>
                   /\ last' = Call("signup", FALSE, "btoa", arg)
    /\ pending' = Null
    /\ UNCHANGED <<now, records, loading, otherTab>>

(***************************************************************************)
(* The inputs the calls are tried with.                                    *)
(***************************************************************************)
UserIds == {users[i].id : i \in 1..Len(users)} \cup {"missing"}
RecordIds == {records[i].id : i \in 1..Len(records)} \cup {"missing"}

Form(n, e, p, c) == [name |-> n, email |-> e, password |-> p, confirmPassword |-> c]

\* Forms that pass signupSchema, and one form for each rule it checks.
SignupForms ==
    {Form("Al", e, p, p) : e \in {DefaultAdminEmail, "a@x.io", "A@x.io"},
                          p \in {"secret9", "pass-EURO-word"}}
    \cup {Form("A", "a@x.io", "secret9", "secret9"),
          Form("Al", "nope", "secret9", "secret9"),
          Form("Al", "a@x.io", "short", "short"),
          Form("Al", "a@x.io", "secret9", DefaultAdminPassword)}

DataFormA ==
    [title |-> <<"A">>, description |-> <<"a", "b">>, category |-> <<"F">>,
     value |-> 10, status |-> "active"]
DataFormB ==
    [title |-> <<"B">>, description |-> <<"b", " ", "H">>, category |-> <<"H">>,
     value |-> 20, status |-> "inactive"]
DataForms == {DataFormA, DataFormB}

\* Partial<DataForm>: some of the fields.
Updates == {[status |-> "inactive"], [title |-> <<"b">>, value |-> 5]}

OwnerIds == {"0", "1"}

\* Partial<DataForm> with more than one field.
FieldUpdates == {[title |-> <<"b">>, value |-> 5]}

\* Partial<User>: some of the fields of a User.
UserUpdates == {[name |-> "Bo", role |-> "admin"], [id |-> "9"]}

(***************************************************************************)
(* Spec: the authentication layer of one tab.                              *)
(***************************************************************************)
Next ==
    \/ AppLoad
    \/ \E e \in Emails, p \in Passwords : Login(e, p)
    \/ \E d \in SignupForms : Signup(d)
    \/ Logout
    \/ \E id \in UserIds : ~loading /\ DeleteUser(id)
    \/ Tick

Spec == Init /\ [][Next]_vars

(***************************************************************************)
(* SpecData: DataManager on its own.                                       *)
(***************************************************************************)
NextData ==
    \/ \E o \in OwnerIds, d \in DataForms : AddRecord(o, d)
    \/ \E id \in RecordIds, u \in Updates : UpdateRecord(id, u)
    \/ \E id \in RecordIds : DeleteRecord(id)
    \/ Tick

SpecData == Init /\ [][NextData]_vars

(***************************************************************************)
(* SpecSession: the session of one tab with all three collections, on      *)
(* fewer inputs.  A record is added for the user of the session, and the  *)
(* clock also moves by whole token lifetimes.                              *)
(***************************************************************************)
SessionLogins ==
    {<<DefaultAdminEmail, DefaultAdminPassword>>, <<"a@x.io", "secret9">>,
     <<"a@x.io", DefaultAdminPassword>>}
SessionForms == {Form("Al", "a@x.io", "secret9", "secret9")}

NextSession ==
    \/ AppLoad
    \/ \E c \in SessionLogins : Login(c[1], c[2])
    \/ \E d \in SessionForms : Signup(d)
    \/ Logout
    \/ \E d \in {DataFormA} : user # Null /\ AddRecord(user.id, d)
    \/ Tick
    \/ TickDay

SpecSession == Init /\ [][NextSession]_vars

(***************************************************************************)
(* SpecToken: generateToken and validateToken on their own.  The token in  *)
(* the store is one generateToken made for a user, or a text written there *)
(* by something else; `last` keeps where the stored token came from while  *)
(* the clock moves.                                                        *)
(***************************************************************************)
FirstUser == addUser(<<>>, AdminData, 0)
TokenUsers ==
    {FirstUser}
    \cup {addUser(<<FirstUser>>, Form("Al", e, "secret9", "secret9"), 1) :
             e \in {"a@x.io", "A@x.io"}}

JsonText(kind, fields) == [json |-> TRUE, val |-> [kind |-> kind, f |-> fields]]
FullPayload == [id |-> "0", email |-> "a@x.io", role |-> "admin", exp |-> TokenTTL]
Without(fields, key) == [k \in DOMAIN fields \ {key} |-> fields[k]]

\* Texts that generateToken did not make: not base64, base64 of a text that
\* is not JSON, of JSON null, of a JSON number, of an object that lacks one
\* of the fields, and of an object that has a name as well.
ForeignTokens ==
    {[b64 |-> FALSE, of |-> JsonText("null", <<>>)],
     Btoa([json |-> FALSE, val |-> [kind |-> "null", f |-> <<>>]]),
     Btoa(JsonText("null", <<>>)),
     Btoa(JsonText("number", <<>>)),
     Btoa(JsonStringify(FullPayload @@ [name |-> "Al"]))}
    \cup {Btoa(JsonStringify(Without(FullPayload, k))) : k \in DOMAIN FullPayload}

TokGenerate(u) ==
    /\ token' = generateToken(u, now)
    /\ last' = Call("generateToken", TRUE, "", [user |-> u])
    /\ UNCHANGED <<now, users, passwords, records, user, loading, added, pending, otherTab>>

TokForeign(t) ==
    /\ token' = t
    /\ last' = Call("setItem", TRUE, "", NoArg)
    /\ UNCHANGED <<now, users, passwords, records, user, loading, added, pending, otherTab>>

TokGetUser ==
    /\ user' = getUser(token, now)
    /\ UNCHANGED <<now, users, passwords, records, token, loading, added, last, pending, otherTab>>

TokTick ==
    /\ now % TokenTTL < MaxMs
    /\ now' = now + 1
    /\ UNCHANGED <<users, passwords, records, token, user, loading, added, last, pending, otherTab>>

TokTickDay ==
    /\ now \div TokenTTL < MaxDays
    /\ now' = now + TokenTTL
    /\ UNCHANGED <<users, passwords, records, token, user, loading, added, last, pending, otherTab>>

NextToken ==
    \/ \E u \in TokenUsers : TokGenerate(u)
    \/ \E t \in ForeignTokens : TokForeign(t)
    \/ TokGetUser
    \/ TokTick
    \/ TokTickDay

SpecToken == Init /\ [][NextToken]_vars

(***************************************************************************)
(* SpecFilter: filterRecords on its own, on the lists of up to             *)
(* MaxFilterLen of three records.                                          *)
(***************************************************************************)
DataFormC ==
    [title |-> <<"a">>, description |-> <<"B">>, category |-> <<"F">>,
     value |-> 5, status |-> "inactive"]

FilterRecords ==
    {newRecord("0", DataFormA, 0, 0, 0), newRecord("0", DataFormB, 1, 1, 1),
     newRecord("1", DataFormC, 1, 1, 2)}

FilterLists == UNION {[1..n -> FilterRecords] : n \in 0..MaxFilterLen}

Only(key, values) == {<<>>} \cup {[k \in {key} |-> v] : v \in values}

DateRange(a, b) == [start |-> NewDate(a), end |-> NewDate(b)]

FilterConfigs ==
    {c @@ st @@ d @@ q :
        c \in Only("category", {<<>>, <<"F">>, <<"f">>}),
        st \in Only("status", {"active", "inactive"}),
        d \in Only("dateRange", {DateRange(0, 0), DateRange(1, 2)}),
        q \in Only("search", {<<>>, <<"a">>, <<"B">>, <<"b", " ", "f">>})}

InitFilter ==
    /\ now = 0
    /\ users = <<>>
    /\ passwords = <<>>
    /\ records \in {saveRecords(l) : l \in FilterLists}
    /\ token = Null
    /\ user = Null
    /\ loading = TRUE
    /\ added = 0
    /\ last = Call("new", TRUE, "", NoArg)
    /\ pending = Null
    /\ otherTab = NewTab

ApplyFilter(filter) ==
    /\ last' = Call("filterRecords", TRUE, "",
                    [filter |-> filter, out |-> filterRecords(getRecords(records), filter)])
    /\ UNCHANGED <<now, users, passwords, records, token, user, loading, added, pending, otherTab>>

NextFilter == \E f \in FilterConfigs : ApplyFilter(f)

SpecFilter == InitFilter /\ [][NextFilter]_vars

(***************************************************************************)
(* SpecAdmin: one tab with the admin dashboard, records of the session's   *)
(* user, and UserManager.deleteUser called on its own.                     *)
(***************************************************************************)
NextAdmin ==
    \/ AppLoad
    \/ \E c \in SessionLogins : Login(c[1], c[2])
    \/ \E d \in SessionForms : Signup(d)
    \/ \E d \in {DataFormA} : user # Null /\ AddRecord(user.id, d)
    \/ \E id \in UserIds \ {"missing"}, c \in BOOLEAN : HandleDeleteUser(id, c)
    \/ \E id \in RecordIds \ {"missing"}, c \in BOOLEAN : HandleDeleteRecord(id, c)
    \/ \E id \in UserIds : ~loading /\ DeleteUser(id)
    \/ Tick

SpecAdmin == Init /\ [][NextAdmin]_vars

(***************************************************************************)
(* SpecTabs: two tabs on one store.                                        *)
(***************************************************************************)
TabForms ==
    {Form("Al", "a@x.io", "secret9", "secret9"), Form("Al", "A@x.io", "secret9", "secret9"),
     Form("A", "a@x.io", "secret9", "secret9")}
TabLogins == {<<DefaultAdminEmail, DefaultAdminPassword>>, <<"a@x.io", DefaultAdminPassword>>}

NextTabs ==
    \/ LoadBegin
    \/ LoadEnd
    \/ \E c \in TabLogins : pending = Null /\ Login(c[1], c[2])
    \/ \E d \in TabForms : SignupBegin(d)
    \/ SignupEnd
    \/ pending = Null /\ Logout
    \/ SwitchTab
    \/ TokTick

SpecTabs == Init /\ [][NextTabs]_vars

(***************************************************************************)
(* SpecUpdate: updateUser and updateRecord on collections that the load of *)
(* the page, signup and addRecord fill; the clock moves within addRecord.  *)
(***************************************************************************)
NextUpdate ==
    \/ AppLoad
    \/ \E d \in SessionForms : Signup(d)
    \/ \E id \in UserIds, u \in UserUpdates : UpdateUser(id, u)
    \/ \E d \in {DataFormA} : AddRecord("0", d)
    \/ \E id \in RecordIds, u \in FieldUpdates : UpdateRecord(id, u)

SpecUpdate == Init /\ [][NextUpdate]_vars

(***************************************************************************)
(* SpecUtils: sortRecords and getRecordStats on their own, on the lists of *)
(* up to MaxUtilLen of the three records.                                  *)
(***************************************************************************)
UtilLists == UNION {[1..n -> FilterRecords] : n \in 0..MaxUtilLen}

SortConfigs ==
    [key : {"value", "title", "status", "createdAt"}, direction : {"asc", "desc"}]

InitUtils ==
    /\ now = 0
    /\ users = <<>>
    /\ passwords = <<>>
    /\ records \in {saveRecords(l) : l \in UtilLists}
    /\ token = Null
    /\ user = Null
    /\ loading = TRUE
    /\ added = 0
    /\ last = Call("new", TRUE, "", NoArg)
    /\ pending = Null
    /\ otherTab = NewTab

ApplySort(config) ==
    /\ last' = Call("sortRecords", TRUE, "",
                    [config |-> config, out |-> sortRecords(getRecords(records), config)])
    /\ UNCHANGED <<now, users, passwords, records, token, user, loading, added, pending, otherTab>>

ApplyStats ==
    /\ last' = Call("getRecordStats", TRUE, "",
                    [out |-> getRecordStats(getRecords(records))])
    /\ UNCHANGED <<now, users, passwords, records, token, user, loading, added, pending, otherTab>>

NextUtils ==
    \/ \E c \in SortConfigs : ApplySort(c)
    \/ ApplyStats

SpecUtils == InitUtils /\ [][NextUtils]_vars

(***************************************************************************)
(* The claims about the authentication layer (Spec).                       *)
(***************************************************************************)
\* The user of the collection us with this e-mail address, as a set.
WithEmail(us, email) == {i \in 1..Len(us) : us[i].email = email}

\* C1: every signup whose input passes the schema and whose e-mail is not
\* registered returns true, and findByEmail then returns the new user, whose
\* role is admin if and only if no user was ever added before, else user.
C1_SignupFirstEverIsAdmin ==
    [][(/\ last'.op = "signup"
        /\ signupSchema(last'.arg)
        /\ WithEmail(users, last'.arg.email) = {})
       => /\ last'.ret
          /\ LET u == findByEmail(users', last'.arg.email) IN
             /\ u # Null
             /\ u.name = last'.arg.name
             /\ u.role = IF added = 0 THEN "admin" ELSE "user"]_vars

\* C3: initializeApp on an empty users collection leaves exactly one user,
\* admin@example.com with role admin, and login with admin@example.com and
\* admin123 then returns true; on a non-empty users collection it changes
\* nothing.
C3_InitializeAppSeedsAdmin ==
    [][last'.op = "load"
       => IF Len(users) = 0
          THEN /\ Len(users') = 1
               /\ users'[1].email = "admin@example.com"
               /\ users'[1].role = "admin"
               /\ loginOutcome(getUsers(users'), passwords',
                               "admin@example.com", "admin123").err = ""
          ELSE UNCHANGED <<users, passwords, records, token>>]_vars

\* C3's case: a load found no users and created the default admin.
C3_Witness ==
    /\ last.op = "load"
    /\ last.arg.created = 1
    /\ added = 2
    /\ Len(users) = 1

\* The payload a token made by generateToken carries.
PayloadOf(tok) == tok.of.val.f

\* C4: a login with input that passes the schema returns true if and only if
\* a user has exactly that e-mail address and the hash stored under that
\* user's id is the hash of the password given; when it returns true the
\* persisted token and the session user carry that user's id, e-mail and role.
C4_LoginIffCredentialsMatch ==
    [][(last'.op = "login" /\ loginSchema(last'.arg.email, last'.arg.password))
       => LET hits == WithEmail(users, last'.arg.email)
              h == hashPassword(last'.arg.password)
              match == {i \in hits : /\ users[i].id \in DOMAIN passwords
                                     /\ h.ok
                                     /\ h.v = passwords[users[i].id]}
          IN  /\ last'.ret <=> match # {}
              /\ last'.ret =>
                    \E i \in match :
                       /\ PayloadOf(token').id = users[i].id
                       /\ PayloadOf(token').email = users[i].email
                       /\ PayloadOf(token').role = users[i].role
                       /\ user'.id = users[i].id
                       /\ user'.email = users[i].email
                       /\ user'.role = users[i].role
                       /\ user'.token = token']_vars

\* C4's case: a user who is not the first one logged in, while another
\* account exists whose password was not the one given.
C4_Witness ==
    /\ last.op = "login"
    /\ last.ret
    /\ user.role = "user"
    /\ user.email = last.arg.email
    /\ PayloadOf(token).email = last.arg.email
    /\ Len(users) = 2

UniqueEmails ==
    \A i, j \in 1..Len(users) : users[i].email = users[j].email => i = j

\* C5: no two users of the collection have the same e-mail address, and a
\* signup with an e-mail address that is registered already returns false and
\* adds no user.
C5_EmailsUnique ==
    /\ []UniqueEmails
    /\ [][(last'.op = "signup" /\ WithEmail(users, last'.arg.email) # {})
          => ~last'.ret /\ users' = users]_vars

\* C5's case: a signup was refused because its e-mail address was taken.
C5_Witness ==
    /\ last.op = "signup"
    /\ last.err = "exists"
    /\ ~last.ret
    /\ Len(users) = 2
    /\ WithEmail(users, last.arg.email) # {}

(***************************************************************************)
(* The claims about DataManager (SpecData).                                *)
(***************************************************************************)
HasId(list, id) == \E i \in 1..Len(list) : list[i].id = id

\* C2: deleteRecord(id) and deleteUser(id) return false and change nothing
\* when no entry has the id; otherwise they return true, the collection
\* becomes exactly one entry shorter, and a repeated delete of the id would
\* return false (no entry with the id is left).
C2_DeleteRemovesExactlyOne ==
    [][/\ last'.op = "deleteRecord"
          => IF ~HasId(records, last'.arg.id)
             THEN ~last'.ret /\ records' = records
             ELSE /\ last'.ret
                  /\ Len(records') = Len(records) - 1
                  /\ ~HasId(records', last'.arg.id)
       /\ last'.op = "deleteUser"
          => IF ~HasId(users, last'.arg.id)
             THEN ~last'.ret /\ users' = users
             ELSE /\ last'.ret
                  /\ Len(users') = Len(users) - 1
                  /\ ~HasId(users', last'.arg.id)]_vars

RecordStampsOrdered ==
    \A i \in 1..Len(records) : records[i].updatedAt.iso >= records[i].createdAt.iso

\* C9 as stated: updatedAt >= createdAt for every record, and every
\* successful updateRecord makes updatedAt strictly greater than it was.
C9_UpdatedAtStrictlyIncreases ==
    /\ []RecordStampsOrdered
    /\ [][(last'.op = "updateRecord" /\ last'.ret)
          => records'[last'.arg.index].updatedAt.iso
                > records[last'.arg.index].updatedAt.iso]_vars

\* C9, amended: updatedAt >= createdAt for every record, and every successful
\* updateRecord sets the record's updatedAt to the clock's reading at the
\* call, which is never less than it was (the clock not running backwards),
\* and leaves createdAt as it was.
C9_UpdatedAtRefreshed ==
    /\ []RecordStampsOrdered
    /\ [][(last'.op = "updateRecord" /\ last'.ret)
          => LET i == last'.arg.index IN
             /\ records'[i].updatedAt = JsonDate(NewDate(now'))
             /\ records'[i].updatedAt.iso >= records[i].updatedAt.iso
             /\ records'[i].createdAt = records[i].createdAt]_vars

\* C9's case: a record was updated a millisecond or more after it was added.
C9_Witness ==
    /\ last.op = "updateRecord"
    /\ last.ret
    /\ records[last.arg.index].updatedAt.iso > records[last.arg.index].createdAt.iso
    /\ Len(records) = 2

(***************************************************************************)
(* The claims about the session of one tab (SpecSession).                      *)
(***************************************************************************)
\* C8: logout leaves no persisted token and no session user, leaves the
\* users, passwords and records collections as they were, and an app load
\* after it restores no session.
C8_LogoutLeavesAnonymous ==
    [][last'.op = "logout"
       => /\ token' = Null
          /\ user' = Null
          /\ UNCHANGED <<users, passwords, records>>
          /\ getUser(token', now') = Null]_vars

\* C8's case: a logout of an authenticated session, with users and records
\* in the store.
C8_Witness ==
    /\ last.op = "logout"
    /\ last.arg.authenticated
    /\ Len(users) = 2
    /\ Len(records) > 0

(***************************************************************************)
(* The claims about the token functions (SpecToken).                       *)
(***************************************************************************)
\* C6: for the user u a token was generated for, validateToken at any time
\* before the token's expiry returns an identity with u's id, e-mail, name and
\* role, and at any time after the expiry it returns null.
C6_TokenRoundTrip ==
    last.op = "generateToken"
    => LET u == last.arg.user
           r == validateToken(token, now)
       IN  /\ now < PayloadOf(token).exp
              => /\ r # Null
                 /\ r.id = u.id
                 /\ r.email = u.email
                 /\ r.name = u.name
                 /\ r.role = u.role
           /\ now > PayloadOf(token).exp => r = Null

WellFormedToken(tok) ==
    /\ tok.b64
    /\ tok.of.json
    /\ tok.of.val.kind = "object"
    /\ {"id", "email", "role", "exp"} \subseteq DOMAIN tok.of.val.f

\* C7: validateToken returns null for every token that is malformed (it does
\* not decode, does not parse, or lacks id, email, role or exp) or expired,
\* and an identity only for a well-formed token that has not expired.
C7_MalformedOrExpiredRejected ==
    token # Null
    => (validateToken(token, now) # Null
          <=> WellFormedToken(token) /\ ~(PayloadOf(token).exp < now))

(***************************************************************************)
(* The claims about DataUtils (SpecFilter).                                *)
(***************************************************************************)
\* Whether the term occurs in the text, whatever the case of the letters.
OccursIgnoringCase(text, term) ==
    \E i, j \in 1..Len(text) :
        /\ j - i + 1 = Len(term)
        /\ \A k \in 1..Len(term) : LowerChar(text[i + k - 1]) = LowerChar(term[k])

\* Whether record r meets every criterion of the filter that `given` counts
\* as supplied.
MeetsAll(r, filter, given(_, _)) ==
    /\ given(filter, "category") => r.category = filter.category
    /\ given(filter, "status") => r.status = filter.status
    /\ given(filter, "dateRange")
       => /\ filter.dateRange.start.date <= r.createdAt.date
          /\ r.createdAt.date <= filter.dateRange.end.date
    /\ (given(filter, "search") /\ filter.search # <<>>)
       => OccursIgnoringCase(searchableText(r), filter.search)

Present(filter, key) == key \in DOMAIN filter
PresentNotEmpty(filter, key) ==
    /\ key \in DOMAIN filter
    /\ key \in {"category", "search"} => filter[key] # <<>>

\* The records of the list that pass, in the order of the list.
Selected(list, filter, given(_, _)) ==
    SelectSeq(list, LAMBDA r : MeetsAll(r, filter, given))

\* C10 as stated: filterRecords returns the records of the input, in order,
\* that meet every criterion present in the filter; only an absent criterion
\* or an empty search text imposes no restriction.
C10_FilterByPresentCriteria ==
    last.op = "filterRecords"
    => last.arg.out = Selected(getRecords(records), last.arg.filter, Present)

\* C10, amended: filterRecords returns the records of the input, in order,
\* that meet every criterion of the filter that is present and not the empty
\* text; an absent criterion, an empty category and an empty search text
\* impose no restriction, so the empty filter returns the whole list.
C10_FilterBySuppliedCriteria ==
    last.op = "filterRecords"
    => /\ last.arg.out = Selected(getRecords(records), last.arg.filter, PresentNotEmpty)
       /\ last.arg.filter = <<>> => last.arg.out = getRecords(records)

\* C10's case: a filter with category, status, date range and search text
\* kept one record of two.
C10_Witness ==
    /\ last.op = "filterRecords"
    /\ DOMAIN last.arg.filter = {"category", "status", "dateRange", "search"}
    /\ last.arg.filter.search # <<>>
    /\ last.arg.filter.category # <<>>
    /\ Len(records) = 2
    /\ Len(last.arg.out) = 1

(***************************************************************************)
(* The claims about sortRecords and getRecordStats (SpecUtils).            *)
(***************************************************************************)
\* Whether out is the list `list` in another order: position i of out holds
\* the record of position f[i] of list, for a one-to-one f.
PermutationOf(out, list) ==
    /\ Len(out) = Len(list)
    /\ \A r \in {list[i] : i \in 1..Len(list)} \cup {out[i] : i \in 1..Len(out)} :
          Cardinality({i \in 1..Len(out) : out[i] = r})
             = Cardinality({i \in 1..Len(list) : list[i] = r})

\* Whether record a must come before record b under the configuration.
KeyBefore(a, b, config) ==
    IF config.direction = "asc"
    THEN LessThan(config.key, a[config.key], b[config.key])
    ELSE LessThan(config.key, b[config.key], a[config.key])

KeysDistinct(list, key) ==
    \A i, j \in 1..Len(list) :
        i # j => LessThan(key, list[i][key], list[j][key])
                 \/ LessThan(key, list[j][key], list[i][key])

\* The records of the list whose key equals that of r, in the list's order.
WithKeyOf(list, r, key) ==
    SelectSeq(list, LAMBDA x : ~LessThan(key, x[key], r[key])
                               /\ ~LessThan(key, r[key], x[key]))

\* C11: sortRecords returns a permutation of its input in which no record
\* comes before one that the key and direction put ahead of it, records with
\* equal keys keep the order they had in the input, the input is left as it
\* was, and when the keys are pairwise distinct sorting the ascending result
\* descending gives its exact reverse.
C11_SortStableAndReversible ==
    last.op = "sortRecords"
    => LET list == getRecords(records)
           config == last.arg.config
           out == last.arg.out
           asc == sortRecords(list, [config EXCEPT !.direction = "asc"])
       IN  /\ PermutationOf(out, list)
           /\ \A i, j \in 1..Len(out) : i < j => ~KeyBefore(out[j], out[i], config)
           /\ \A i \in 1..Len(list) :
                 WithKeyOf(out, list[i], config.key) = WithKeyOf(list, list[i], config.key)
           /\ KeysDistinct(list, config.key)
              => sortRecords(asc, [config EXCEPT !.direction = "desc"]) = Reverse(asc)

\* C11's case: a descending sort moved records, and two records with equal
\* keys were among them.
C11_Witness ==
    /\ last.op = "sortRecords"
    /\ last.arg.config.direction = "desc"
    /\ last.arg.out # getRecords(records)
    /\ Len(records) = 3
    /\ ~KeysDistinct(getRecords(records), last.arg.config.key)
    /\ \E i \in 1..3 : Len(WithKeyOf(last.arg.out, last.arg.out[i], last.arg.config.key)) = 2
                       /\ WithKeyOf(last.arg.out, last.arg.out[i], last.arg.config.key)[1]
                          # WithKeyOf(last.arg.out, last.arg.out[i], last.arg.config.key)[2]

\* The sum of the values of the records at the positions in S.
RECURSIVE SumOver(_, _)
SumOver(list, S) ==
    IF S = {} THEN 0
    ELSE LET i == CHOOSE x \in S : TRUE IN list[i].value + SumOver(list, S \ {i})

\* C12: getRecordStats returns the number of records as total, the numbers
\* of active and of inactive records (which add up to total), the sum of the
\* values as totalValue, and totalValue / total as avgValue, 0 for the empty
\* list; values 10 (active) and 20 (inactive) give 2, 1, 1, 30 and 15.
C12_StatsCountSumAverage ==
    /\ last.op = "getRecordStats"
       => LET list == getRecords(records)
              out == last.arg.out
          IN  /\ out.total = Len(list)
              /\ out.active = Cardinality({i \in 1..Len(list) : list[i].status = "active"})
              /\ out.inactive = Cardinality({i \in 1..Len(list) : list[i].status = "inactive"})
              /\ out.active + out.inactive = out.total
              /\ out.totalValue = SumOver(list, 1..Len(list))
              /\ IF out.total = 0 THEN out.avgValue = Number(0)
                 ELSE /\ out.avgValue.den > 0
                      /\ out.avgValue.num * out.total = out.totalValue * out.avgValue.den
                      /\ GCD(out.avgValue.num, out.avgValue.den) = 1
    /\ getRecordStats(<<newRecord("0", DataFormA, 0, 0, 0), newRecord("0", DataFormB, 1, 1, 1)>>)
          = [total |-> 2, active |-> 1, inactive |-> 1, totalValue |-> 30,
             avgValue |-> Number(15)]

\* C12's case: the statistics of records whose average is not a whole number.
C12_Witness ==
    /\ last.op = "getRecordStats"
    /\ last.arg.out.total = 2
    /\ last.arg.out.active = 1
    /\ last.arg.out.avgValue.den = 2

(***************************************************************************)
(* The claims about two tabs on one store (SpecTabs).                      *)
(***************************************************************************)
\* A step in which the tab in front finishes the call it was in the middle of.
CallEnds == pending # Null /\ pending' = Null /\ otherTab' = otherTab

Range(list) == {list[i] : i \in 1..Len(list)}

\* C13: the write of the users collection by addUser leaves the collection
\* that the tab read before, plus its new user, whose role is admin exactly
\* when the collection read was empty: whatever another tab wrote between
\* the read and the write is gone from the store, even a user whose signup
\* returned true.
C13_WriteKeepsOnlyWhatWasRead ==
    [][(CallEnds /\ (pending.op = "signup" \/ Len(pending.read) = 0))
       => LET n == Len(pending.read) IN
          /\ Len(users') = n + 1
          /\ SubSeq(users', 1, n) = pending.read
          /\ users'[n + 1].role = IF n = 0 THEN "admin" ELSE "user"
          /\ \A u \in Range(users) \ Range(pending.read) :
                u \in Range(users') => u = users'[n + 1]]_vars

\* C13's case: both tabs read the empty collection and each made its new
\* user admin; the other tab then signed a user up, which returned true; the
\* write of the tab in front has left its own user alone in the store.
C13_Witness ==
    /\ last.op = "load"
    /\ last.arg.created = 1
    /\ last.arg.read = <<>>
    /\ Len(last.arg.before) = 2
    /\ last.arg.before[1].role = "admin"
    /\ Len(users) = 1
    /\ users[1].role = "admin"
    /\ otherTab.user # Null
    /\ otherTab.user.email = "a@x.io"
    /\ WithEmail(last.arg.before, "a@x.io") # {}
    /\ WithEmail(users, "a@x.io") = {}

\* Whether the session user u of a tab is the one the persisted token names.
MirrorsToken(u) ==
    u # Null
    => /\ token # Null
       /\ u.id = PayloadOf(token).id
       /\ u.email = PayloadOf(token).email
       /\ u.role = PayloadOf(token).role

\* C15: in every tab the session user is non-null only if a token is
\* persisted, and then has the id, e-mail and role the token encodes, also
\* after a login or logout in the other tab.
C15_SessionMirrorsToken == MirrorsToken(user) /\ MirrorsToken(otherTab.user)

(***************************************************************************)
(* More claims about the authentication layer (Spec, SpecSession).         *)
(***************************************************************************)
EveryUserHasPassword == \A i \in 1..Len(users) : users[i].id \in DOMAIN passwords

\* C14: a signup that returns false leaves the users and passwords
\* collections and the session as they were, a signup that returns true
\* leaves the new user and a password entry under its id, and no user ever
\* lacks a password entry.
C14_SignupAllOrNothing ==
    /\ []EveryUserHasPassword
    /\ [][last'.op = "signup"
          => IF last'.ret
             THEN LET u == findByEmail(users', last'.arg.email) IN
                  u # Null /\ u.id \in DOMAIN passwords'
             ELSE UNCHANGED <<users, passwords, token, user>>]_vars

\* C16: a tab is never authenticated at a time later than the expiry of the
\* token it was authenticated with.
C16_NoSessionPastExpiry ==
    user # Null => now <= PayloadOf(user.token).exp

UniqueIds(list) == \A i, j \in 1..Len(list) : list[i].id = list[j].id => i = j

\* C20: no two users share an id and no two data records share an id.
C20_IdsUnique == UniqueIds(users) /\ UniqueIds(records)

(***************************************************************************)
(* The claims about the admin dashboard and deleteUser (SpecAdmin).        *)
(***************************************************************************)
\* C17: after a confirmed handleDeleteUser(u) no user with id u is in the
\* users collection and no record with userId u is in the records
\* collection; a handleDeleteUser that was not confirmed changes nothing.
C17_DeleteUserCascades ==
    [][last'.op = "handleDeleteUser"
       => IF last'.ret
          THEN /\ ~HasId(users', last'.arg.id)
               /\ \A i \in 1..Len(records') : records'[i].userId # last'.arg.id
          ELSE UNCHANGED <<users, records>>]_vars

\* C17's case: the administrator deleted a user who owned records.
C17_Witness ==
    /\ last.op = "handleDeleteUser"
    /\ last.ret
    /\ last.arg.owned > 0
    /\ Len(users) = 1
    /\ added = 2
    /\ Len(records) = 0

\* C18: UserManager.deleteUser changes nothing but the users collection: the
\* passwords collection (the entry of the deleted user included), the
\* records and the persisted token stay as they were, and handleDeleteUser
\* leaves the passwords collection as it was too.
C18_DeleteUserLeavesPassword ==
    [][/\ last'.op = "deleteUser"
          => UNCHANGED <<passwords, records, token, user>>
       /\ last'.op = "handleDeleteUser"
          => UNCHANGED <<passwords, token, user>>]_vars

\* C18's case: deleteUser removed a user who has a password entry, owns a
\* record and holds the session.
C18_Witness ==
    /\ last.op = "deleteUser"
    /\ last.ret
    /\ ~HasId(users, last.arg.id)
    /\ last.arg.id \in DOMAIN passwords
    /\ \E i \in 1..Len(records) : records[i].userId = last.arg.id
    /\ token # Null
    /\ PayloadOf(token).id = last.arg.id

(***************************************************************************)
(* The claims about updateRecord and updateUser (SpecUpdate).              *)
(***************************************************************************)
\* What an update of the collection `before` into `after` must be, the entry
\* at `index` being the one that matches: only that entry differs, in the
\* fields supplied and in updatedAt; the fields in `kept` stay as they were.
UpdatesOnly(before, after, index, updates, kept) ==
    /\ Len(after) = Len(before)
    /\ \A j \in 1..Len(before) : j # index => after[j] = before[j]
    /\ DOMAIN after[index] = DOMAIN before[index]
    /\ \A k \in DOMAIN before[index] :
          after[index][k] = IF k = "updatedAt" THEN JsonDate(NewDate(now'))
                            ELSE IF k \in DOMAIN updates THEN updates[k]
                            ELSE before[index][k]
    /\ \A k \in kept \cap DOMAIN before[index] : after[index][k] = before[index][k]

\* C19 as stated: updateRecord and updateUser return false and change
\* nothing when no entry has the id; otherwise they return true and
\* overwrite only the supplied fields and updatedAt of the matching entry,
\* whose id, userId and createdAt stay as they were.
C19_UpdateKeepsIdentity ==
    [][/\ last'.op = "updateRecord"
          => IF ~HasId(records, last'.arg.id)
             THEN ~last'.ret /\ records' = records
             ELSE /\ last'.ret
                  /\ UpdatesOnly(records, records', last'.arg.index, last'.arg.updates,
                                 {"id", "userId", "createdAt"})
       /\ last'.op = "updateUser"
          => IF ~HasId(users, last'.arg.id)
             THEN ~last'.ret /\ users' = users
             ELSE /\ last'.ret
                  /\ UpdatesOnly(users, users', last'.arg.index, last'.arg.updates,
                                 {"id", "createdAt"})]_vars

\* C19, amended: as above, except that updateUser keeps the id and createdAt
\* of the entry only when the updates do not supply them; updateRecord, whose
\* updates are fields of the form, always keeps id, userId and createdAt.
C19_UpdateOverwritesSupplied ==
    [][/\ last'.op = "updateRecord"
          => IF ~HasId(records, last'.arg.id)
             THEN ~last'.ret /\ records' = records
             ELSE /\ last'.ret
                  /\ last'.arg.index = findIndex(records, last'.arg.id)
                  /\ UpdatesOnly(records, records', last'.arg.index, last'.arg.updates,
                                 {"id", "userId", "createdAt"})
       /\ last'.op = "updateUser"
          => IF ~HasId(users, last'.arg.id)
             THEN ~last'.ret /\ users' = users
             ELSE /\ last'.ret
                  /\ last'.arg.index = findIndex(users, last'.arg.id)
                  /\ UpdatesOnly(users, users', last'.arg.index, last'.arg.updates,
                                 {"id", "createdAt"} \ DOMAIN last'.arg.updates)]_vars

\* C19's case: the second of two users was updated, and a record as well.
C19_Witness ==
    /\ last.op = "updateUser"
    /\ last.ret
    /\ last.arg.index = 2
    /\ Len(users) = 2
    /\ users[2].name = "Bo"
    /\ \E i \in 1..Len(records) : /\ records[i].title = <<"b">>
                                  /\ records[i].updatedAt.iso > records[i].createdAt.iso

(***************************************************************************)
(* More claims about the admin dashboard (SpecAdmin).                      *)
(***************************************************************************)
\* Whether the users collection holds a user with this id and role admin.
StoredAdmin(us, id) == \E i \in 1..Len(us) : us[i].id = id /\ us[i].role = "admin"

\* C21: a handleDeleteUser or handleDeleteRecord that goes through (it was
\* confirmed) is performed only by a session whose user is, at the time of
\* the call, in the users collection with role admin.
C21_AdminActionsNeedStoredAdmin ==
    [][(last'.op \in {"handleDeleteUser", "handleDeleteRecord"} /\ last'.ret)
       => user # Null /\ StoredAdmin(users, user.id)]_vars

\* The list without its entry at position i.
WithoutAt(list, i) == SubSeq(list, 1, i - 1) \o SubSeq(list, i + 1, Len(list))

NotOwnedBy(list, id) == SelectSeq(list, LAMBDA r : r.userId # id)

\* C22: a confirmed handleDeleteUser(u) leaves the records of every user
\* other than u as they were, and a confirmed handleDeleteRecord or a
\* deleteRecord of the id of a record r removes r and leaves every other
\* record as it was.
C22_DeletionsHitOnlyTarget ==
    [][/\ (last'.op = "handleDeleteUser" /\ last'.ret)
          => NotOwnedBy(records', last'.arg.id) = NotOwnedBy(records, last'.arg.id)
       /\ (/\ last'.op \in {"handleDeleteRecord", "deleteRecord"}
           /\ last'.ret
           /\ HasId(records, last'.arg.id))
          => \E i \in 1..Len(records) :
                /\ records[i].id = last'.arg.id
                /\ records' = WithoutAt(records, i)]_vars

(***************************************************************************)
(* More claims about the authentication layer (Spec).                      *)
(***************************************************************************)
\* C23: a login that returns false leaves the persisted token, the session
\* user and the users, passwords and records collections as they were.
C23_FailedLoginChangesNothing ==
    [][(last'.op = "login" /\ ~last'.ret)
       => UNCHANGED <<token, user, users, passwords, records, loading>>]_vars

\* C23's case: while one user was authenticated, a login with the e-mail
\* address of another registered user and a wrong password returned false.
C23_Witness ==
    /\ last.op = "login"
    /\ ~last.ret
    /\ last.err = "invalid"
    /\ WithEmail(users, last.arg.email) # {}
    /\ user # Null
    /\ user.email # last.arg.email
    /\ token = user.token

====
